---- MODULE Spec2Model ----
(***************************************************************************)
(* A state-machine model of the two-pass assembler: the macro expander     *)
(* (assembly.c), Pass 1 (first_pass.c, utils.c), Pass 2 and the output     *)
(* formatter (second_pass.c) and the per-file driver (main.c).             *)
(*                                                                         *)
(* A source line is modelled after the lexical split the passes perform on *)
(* it (extract_label, then split_line): a record [label, words], where     *)
(* label is the text before the first ':' (NoLabel when the line has no    *)
(* ':') and words is the sequence of tokens of the rest.  A token is a     *)
(* sequence of one-character strings, so that the character tests of the   *)
(* code (first character, length, digits) are computed, not assumed.       *)
(***************************************************************************)
EXTENDS Integers, Sequences, FiniteSets, TLC

(***************************************************************************)
(* Program constants (assembler.h).                                        *)
(***************************************************************************)
MEMORY_SIZE == 4096
INITIAL_IC == 100
INITIAL_DC == 0
MAX_MACRO_LINES == 100
MAX_LABEL_LENGTH == 32

IMMEDIATE == 0
DIRECT == 1
INDIRECT == 2
REGISTER == 3

ARE_ABSOLUTE == 0
ARE_EXTERNAL == 1
ARE_RELOCATABLE == 2

(* unsigned int value : 12 of word_t *)
VALUE_BITS == 12
ValueMod == 2 ^ VALUE_BITS

(***************************************************************************)
(* Bounds of the model.                                                    *)
(***************************************************************************)
MaxLines == 3
MaxMacroInput == 7
MaxPayload == 7
MaxSizingLines == 1
MaxFiles == 2
MaxBatchLines == 1
MaxCollectInput == 4
MaxCapacityLines == 69
ValuesPerLine == 60

(***************************************************************************)
(* Characters and tokens.                                                  *)
(***************************************************************************)
NUL == ""
NoLabel == <<"no label">>
NULL == [null |-> TRUE]

(* s[i] of a C string: the terminator once past the end *)
At(s, i) == IF i \in 1..Len(s) THEN s[i] ELSE NUL

Digits == <<"0", "1", "2", "3", "4", "5", "6", "7", "8", "9">>

isdigit(c) == \E d \in 1..10 : Digits[d] = c

(* c - '0' for a digit character *)
DigitValue(c) == (CHOOSE d \in 1..10 : Digits[d] = c) - 1

t_mov == <<"m", "o", "v">>
t_cmp == <<"c", "m", "p">>
t_add == <<"a", "d", "d">>
t_sub == <<"s", "u", "b">>
t_not == <<"n", "o", "t">>
t_clr == <<"c", "l", "r">>
t_lea == <<"l", "e", "a">>
t_inc == <<"i", "n", "c">>
t_dec == <<"d", "e", "c">>
t_jmp == <<"j", "m", "p">>
t_bne == <<"b", "n", "e">>
t_red == <<"r", "e", "d">>
t_prn == <<"p", "r", "n">>
t_jsr == <<"j", "s", "r">>
t_rts == <<"r", "t", "s">>
t_hlt == <<"h", "l", "t">>
t_data == <<".", "d", "a", "t", "a">>
t_string == <<".", "s", "t", "r", "i", "n", "g">>
t_entry == <<".", "e", "n", "t", "r", "y">>
t_extern == <<".", "e", "x", "t", "e", "r", "n">>
t_mat == <<".", "m", "a", "t">>
t_macr == <<"m", "a", "c", "r">>
t_mcro == <<"m", "c", "r", "o">>
t_endmacr == <<"e", "n", "d", "m", "a", "c", "r">>
t_mcroend == <<"m", "c", "r", "o", "e", "n", "d">>

(***************************************************************************)
(* utils.c: the instruction catalog and the lexical helpers.               *)
(***************************************************************************)
(* valid_*_types[type] is element type + 1 of the tuple *)
instruction_table ==
  << [name |-> t_mov, opcode |-> 0,  operand_count |-> 2, valid_src_types |-> <<0,1,1,1>>, valid_dest_types |-> <<0,1,1,1>>],
     [name |-> t_cmp, opcode |-> 1,  operand_count |-> 2, valid_src_types |-> <<1,1,1,1>>, valid_dest_types |-> <<1,1,1,1>>],
     [name |-> t_add, opcode |-> 2,  operand_count |-> 2, valid_src_types |-> <<0,1,1,1>>, valid_dest_types |-> <<0,1,1,1>>],
     [name |-> t_sub, opcode |-> 3,  operand_count |-> 2, valid_src_types |-> <<0,1,1,1>>, valid_dest_types |-> <<0,1,1,1>>],
     [name |-> t_not, opcode |-> 4,  operand_count |-> 1, valid_src_types |-> <<0,0,0,0>>, valid_dest_types |-> <<0,1,1,1>>],
     [name |-> t_clr, opcode |-> 5,  operand_count |-> 1, valid_src_types |-> <<0,0,0,0>>, valid_dest_types |-> <<0,1,1,1>>],
     [name |-> t_lea, opcode |-> 6,  operand_count |-> 2, valid_src_types |-> <<0,1,0,0>>, valid_dest_types |-> <<0,1,1,1>>],
     [name |-> t_inc, opcode |-> 7,  operand_count |-> 1, valid_src_types |-> <<0,0,0,0>>, valid_dest_types |-> <<0,1,1,1>>],
     [name |-> t_dec, opcode |-> 8,  operand_count |-> 1, valid_src_types |-> <<0,0,0,0>>, valid_dest_types |-> <<0,1,1,1>>],
     [name |-> t_jmp, opcode |-> 9,  operand_count |-> 1, valid_src_types |-> <<0,0,0,0>>, valid_dest_types |-> <<0,1,0,1>>],
     [name |-> t_bne, opcode |-> 10, operand_count |-> 1, valid_src_types |-> <<0,0,0,0>>, valid_dest_types |-> <<0,1,0,1>>],
     [name |-> t_red, opcode |-> 11, operand_count |-> 1, valid_src_types |-> <<0,0,0,0>>, valid_dest_types |-> <<0,1,1,1>>],
     [name |-> t_prn, opcode |-> 12, operand_count |-> 1, valid_src_types |-> <<0,0,0,0>>, valid_dest_types |-> <<1,1,1,1>>],
     [name |-> t_jsr, opcode |-> 13, operand_count |-> 1, valid_src_types |-> <<0,0,0,0>>, valid_dest_types |-> <<0,1,0,1>>],
     [name |-> t_rts, opcode |-> 14, operand_count |-> 0, valid_src_types |-> <<0,0,0,0>>, valid_dest_types |-> <<0,0,0,0>>],
     [name |-> t_hlt, opcode |-> 15, operand_count |-> 0, valid_src_types |-> <<0,0,0,0>>, valid_dest_types |-> <<0,0,0,0>>] >>

(* the first table entry of that name, NULL when there is none *)
get_instruction_info(name) ==
  IF \E i \in 1..Len(instruction_table) : instruction_table[i].name = name
  THEN LET i == CHOOSE j \in 1..Len(instruction_table) :
                  /\ instruction_table[j].name = name
                  /\ \A k \in 1..(j - 1) : instruction_table[k].name # name
       IN instruction_table[i]
  ELSE NULL

get_operand_type(operand) ==
  IF At(operand, 1) = "#" THEN IMMEDIATE
  ELSE IF At(operand, 1) = "*" THEN INDIRECT
  ELSE IF At(operand, 1) = "r" /\ isdigit(At(operand, 2)) /\ At(operand, 3) = NUL
       THEN REGISTER
  ELSE DIRECT

(* -1 unless the operand starts with 'r' and its second character is 0..7 *)
get_register_number(operand) ==
  IF At(operand, 1) # "r" THEN -1
  ELSE IF isdigit(At(operand, 2)) /\ DigitValue(At(operand, 2)) <= 7
       THEN DigitValue(At(operand, 2))
       ELSE -1

(* atoi: optional sign, then the leading digits; 0 when there are none *)
RECURSIVE DigitsValue(_, _, _)
DigitsValue(s, i, acc) ==
  IF isdigit(At(s, i)) THEN DigitsValue(s, i + 1, acc * 10 + DigitValue(At(s, i)))
  ELSE acc

string_to_int(str) ==
  IF At(str, 1) = "-" THEN 0 - DigitsValue(str, 2, 0)
  ELSE IF At(str, 1) = "+" THEN DigitsValue(str, 2, 0)
  ELSE DigitsValue(str, 1, 0)

(* The operand loop of get_instruction_length; i counts from 0 as in the code *)
RECURSIVE LengthLoop(_, _, _, _, _)
LengthLoop(info, operands, operand_count, i, length) ==
  IF i >= operand_count THEN length
  ELSE LET type == get_operand_type(operands[i + 1])
       IN IF i = 0 /\ info.valid_src_types[type + 1] = 0 THEN -1
          ELSE IF i # 0 /\ info.valid_dest_types[type + 1] = 0 THEN -1
          ELSE IF /\ operand_count = 2
                  /\ i = 0
                  /\ type = REGISTER
                  /\ get_operand_type(operands[2]) = REGISTER
               THEN LengthLoop(info, operands, operand_count, i + 1, length)
          ELSE IF type # REGISTER \/ operand_count = 1
               THEN LengthLoop(info, operands, operand_count, i + 1, length + 1)
          ELSE LengthLoop(info, operands, operand_count, i + 1, length)

get_instruction_length(instruction, operands, operand_count) ==
  LET info == get_instruction_info(instruction)
  IN IF info = NULL THEN -1
     ELSE IF operand_count # info.operand_count THEN -1
     ELSE LengthLoop(info, operands, operand_count, 0, 1)

(* A line as the passes see it *)
is_empty_line(line) == line.label = NoLabel /\ line.words = <<>>

is_comment_line(line) ==
  line.label = NoLabel /\ line.words # <<>> /\ At(line.words[1], 1) = ";"

(***************************************************************************)
(* first_pass.c: the symbol table and Pass 1.  The table is the linked     *)
(* list, head first.                                                       *)
(***************************************************************************)
find_symbol(table, name) ==
  IF \E i \in 1..Len(table) : table[i].name = name
  THEN LET i == CHOOSE j \in 1..Len(table) :
                  /\ table[j].name = name
                  /\ \A k \in 1..(j - 1) : table[k].name # name
       IN table[i]
  ELSE NULL

(* add_symbol without the exception for externals: any name already in the table
   is refused *)
add_symbol_refusing_externals(table, name, address, is_external, is_data) ==
  IF find_symbol(table, name) # NULL
  THEN [result |-> "ERROR_DUPLICATE_LABEL", table |-> table]
  ELSE [result |-> "SUCCESS",
        table |-> << [name |-> name, address |-> address,
                      is_external |-> is_external, is_entry |-> 0,
                      is_data |-> is_data] >> \o table]

add_symbol(table, name, address, is_external, is_data) ==
  IF find_symbol(table, name) # NULL /\ is_external = 0
  THEN [result |-> "ERROR_DUPLICATE_LABEL", table |-> table]
  ELSE [result |-> "SUCCESS",
        table |-> << [name |-> name, address |-> address,
                      is_external |-> is_external, is_entry |-> 0,
                      is_data |-> is_data] >> \o table]

is_instruction(word) == get_instruction_info(word) # NULL

is_directive(word) == word \in {t_data, t_string, t_entry, t_extern}

(* g is the record of the globals a Pass 1 line works on: IC, DC, symbol_table *)
process_instruction_first_pass(parts, part_count, label, g) ==
  LET added == IF label # NoLabel /\ Len(label) > 0
               THEN add_symbol(g.symbol_table, label, g.IC, 0, 0)
               ELSE [result |-> "SUCCESS", table |-> g.symbol_table]
      g1 == [g EXCEPT !.symbol_table = added.table]
      instruction_length == get_instruction_length(parts[1], Tail(parts), part_count - 1)
  IN IF added.result # "SUCCESS" THEN [result |-> "ERROR_DUPLICATE_LABEL", g |-> g1]
     ELSE IF get_instruction_info(parts[1]) = NULL
          THEN [result |-> "ERROR_INVALID_INSTRUCTION", g |-> g1]
     ELSE IF instruction_length < 0 THEN [result |-> "ERROR_INVALID_OPERAND", g |-> g1]
     ELSE [result |-> "SUCCESS", g |-> [g1 EXCEPT !.IC = g.IC + instruction_length]]

process_directive_first_pass(parts, part_count, label, g) ==
  LET labelled == label # NoLabel /\ Len(label) > 0
  IN IF parts[1] = t_data
     THEN [result |-> "SUCCESS",
           g |-> [g EXCEPT !.symbol_table =
                              IF labelled THEN add_symbol(@, label, g.DC, 0, 1).table ELSE @,
                           !.DC = @ + (part_count - 1)]]
     ELSE IF parts[1] = t_string
     THEN [result |-> "SUCCESS",
           g |-> [g EXCEPT !.symbol_table =
                              IF labelled THEN add_symbol(@, label, g.DC, 0, 1).table ELSE @,
                           !.DC = IF part_count > 1 THEN @ + Len(parts[2]) - 1 ELSE @]]
     ELSE IF parts[1] = t_entry
     THEN [result |-> "SUCCESS", g |-> g]
     ELSE IF parts[1] = t_extern
     THEN [result |-> "SUCCESS",
           g |-> [g EXCEPT !.symbol_table =
                              IF part_count > 1 THEN add_symbol(@, parts[2], 0, 1, 0).table
                              ELSE @]]
     ELSE [result |-> "ERROR_INVALID_DIRECTIVE", g |-> g]

process_line_first_pass(line, g) ==
  IF is_empty_line(line) \/ is_comment_line(line) THEN [result |-> "SUCCESS", g |-> g]
  ELSE IF Len(line.words) = 0
       THEN IF line.label # NoLabel
            THEN LET added == add_symbol(g.symbol_table, line.label, g.IC, 0, 0)
                 IN [result |-> IF added.result # "SUCCESS" THEN "ERROR_DUPLICATE_LABEL"
                                ELSE "SUCCESS",
                     g |-> [g EXCEPT !.symbol_table = added.table]]
            ELSE [result |-> "SUCCESS", g |-> g]
  ELSE IF is_instruction(line.words[1])
       THEN process_instruction_first_pass(line.words, Len(line.words), line.label, g)
  ELSE IF is_directive(line.words[1])
       THEN process_directive_first_pass(line.words, Len(line.words), line.label, g)
  ELSE [result |-> "ERROR_INVALID_INSTRUCTION", g |-> g]

(* the rebase loop without its test of is_data: every symbol is moved *)
RebaseData_every_symbol(table, ic) ==
  [i \in 1..Len(table) |-> [table[i] EXCEPT !.address = @ + ic]]

(* the rebase loop at the end of first_pass *)
RebaseData(table, ic) ==
  [i \in 1..Len(table) |->
     IF table[i].is_data # 0 THEN [table[i] EXCEPT !.address = @ + ic] ELSE table[i]]

(***************************************************************************)
(* second_pass.c: Pass 2.  g is the record of the globals a Pass 2 line    *)
(* works on: IC, DC, symbol_table, external_references and the two memory  *)
(* arrays.  An array is the function from the indices written so far to    *)
(* the words there; an index outside its domain reads as the zero word of  *)
(* static storage.                                                         *)
(***************************************************************************)
UpperCase ==
  << "A", "B", "C", "D", "E", "F", "G", "H", "I", "J", "K", "L", "M",
     "N", "O", "P", "Q", "R", "S", "T", "U", "V", "W", "X", "Y", "Z" >>

LowerCase ==
  << "a", "b", "c", "d", "e", "f", "g", "h", "i", "j", "k", "l", "m",
     "n", "o", "p", "q", "r", "s", "t", "u", "v", "w", "x", "y", "z" >>

(* the value of a char: the space is 32, digits from 48, capitals from 65, small
   letters from 97; the double quote is 34 *)
Ord(c) ==
  IF c = " " THEN 32
  ELSE IF isdigit(c) THEN 48 + DigitValue(c)
  ELSE IF \E i \in 1..26 : UpperCase[i] = c
       THEN 64 + (CHOOSE i \in 1..26 : UpperCase[i] = c)
  ELSE IF \E i \in 1..26 : LowerCase[i] = c
       THEN 96 + (CHOOSE i \in 1..26 : LowerCase[i] = c)
  ELSE 34

ZeroWord == [value |-> 0, are |-> 0]

ReadWord(memory, i) == IF i \in DOMAIN memory THEN memory[i] ELSE ZeroWord

(* a store to the bit-fields of a word_t: value keeps 12 bits, are 3 *)
StoreWord(memory, i, value, are) ==
  (i :> [value |-> value % ValueMod, are |-> are % 8]) @@ memory

encode_word(g, address, value, are) ==
  IF address >= MEMORY_SIZE THEN g
  ELSE [g EXCEPT !.instruction_memory = StoreWord(@, address - INITIAL_IC, value, are)]

(* add_external_reference keeping one record per label: a label already in the
   list is not recorded again *)
add_external_reference_once(g, label, address) ==
  IF \E i \in 1..Len(g.external_references) : g.external_references[i].label = label
  THEN g
  ELSE [g EXCEPT !.external_references = << [label |-> label, address |-> address] >> \o @]

add_external_reference(g, label, address) ==
  [g EXCEPT !.external_references = << [label |-> label, address |-> address] >> \o @]

HasChar(str, c) == \E i \in 1..Len(str) : str[i] = c

(* the symbol name of an operand: the text before its first '[' *)
parse_matrix_operand(operand) ==
  IF HasChar(operand, "[")
  THEN SubSeq(operand, 1, (CHOOSE i \in 1..Len(operand) :
                             /\ operand[i] = "["
                             /\ \A k \in 1..(i - 1) : operand[k] # "[") - 1)
  ELSE operand

(* the word of a resolved symbol without the test of is_external: every symbol
   is encoded as an external one *)
EncodeSymbolWord_all_external(g, operand_str, symbol) ==
  LET g1 == add_external_reference(encode_word(g, g.IC, 0, ARE_EXTERNAL), operand_str, g.IC)
  IN [g1 EXCEPT !.IC = @ + 1]

(* the word of a resolved symbol, shared by the DIRECT and INDIRECT cases *)
EncodeSymbolWord(g, operand_str, symbol) ==
  LET g1 == IF symbol.is_external # 0
            THEN add_external_reference(encode_word(g, g.IC, 0, ARE_EXTERNAL),
                                        operand_str, g.IC)
            ELSE encode_word(g, g.IC, symbol.address, ARE_RELOCATABLE)
  IN [g1 EXCEPT !.IC = @ + 1]

encode_operand_word(g, operand_str, type) ==
  LET symbol == find_symbol(g.symbol_table, parse_matrix_operand(operand_str))
  IN IF type = IMMEDIATE
     THEN [result |-> "SUCCESS",
           g |-> [encode_word(g, g.IC, string_to_int(Tail(operand_str)), ARE_ABSOLUTE)
                    EXCEPT !.IC = @ + 1]]
     ELSE IF type = DIRECT
     THEN IF symbol # NULL
          THEN [result |-> "SUCCESS", g |-> EncodeSymbolWord(g, operand_str, symbol)]
          ELSE [result |-> "ERROR_UNDEFINED_LABEL", g |-> g]
     ELSE IF type = INDIRECT
     THEN IF symbol # NULL
          THEN LET g1 == EncodeSymbolWord(g, operand_str, symbol)
               IN [result |-> "SUCCESS",
                   g |-> IF HasChar(operand_str, "[") /\ HasChar(operand_str, "]")
                         THEN [encode_word(g1, g1.IC, 0, ARE_ABSOLUTE) EXCEPT !.IC = @ + 1]
                         ELSE g1]
          ELSE [result |-> "ERROR_UNDEFINED_LABEL", g |-> g]
     ELSE IF type = REGISTER
     THEN [result |-> "SUCCESS",
           g |-> [encode_word(g, g.IC, get_register_number(operand_str), ARE_ABSOLUTE)
                    EXCEPT !.IC = @ + 1]]
     ELSE [result |-> "SUCCESS", g |-> g]

(* encode_instruction_from_parts without the register pair packed: each of the
   two operands gets its own word *)
encode_instruction_from_parts_unpacked(parts, part_count, g) ==
  LET inst_info == get_instruction_info(parts[1])
      opcode == inst_info.opcode
  IN IF part_count = 0 THEN [result |-> "ERROR_INVALID_SYNTAX", g |-> g]
     ELSE IF inst_info = NULL THEN [result |-> "ERROR_INVALID_INSTRUCTION", g |-> g]
     ELSE IF inst_info.operand_count = 0
     THEN [result |-> "SUCCESS",
           g |-> [encode_word(g, g.IC, opcode * 64, ARE_ABSOLUTE) EXCEPT !.IC = @ + 1]]
     ELSE IF inst_info.operand_count = 1
     THEN LET dest_type == get_operand_type(parts[2])
              first_word == opcode * 64 + dest_type * 4
              g1 == [encode_word(g, g.IC, first_word, ARE_ABSOLUTE) EXCEPT !.IC = @ + 1]
          IN [result |-> "SUCCESS", g |-> encode_operand_word(g1, parts[2], dest_type).g]
     ELSE LET src_type == get_operand_type(parts[2])
              dest_type == get_operand_type(parts[3])
              first_word == opcode * 64 + src_type * 16 + dest_type * 4
              g1 == [encode_word(g, g.IC, first_word, ARE_ABSOLUTE) EXCEPT !.IC = @ + 1]
              g2 == encode_operand_word(g1, parts[2], src_type).g
          IN [result |-> "SUCCESS",
              g |-> encode_operand_word(g2, parts[3], dest_type).g]

(* the result of encode_operand_word is not looked at by its caller *)
encode_instruction_from_parts(parts, part_count, g) ==
  LET inst_info == get_instruction_info(parts[1])
      opcode == inst_info.opcode
  IN IF part_count = 0 THEN [result |-> "ERROR_INVALID_SYNTAX", g |-> g]
     ELSE IF inst_info = NULL THEN [result |-> "ERROR_INVALID_INSTRUCTION", g |-> g]
     ELSE IF inst_info.operand_count = 0
     THEN [result |-> "SUCCESS",
           g |-> [encode_word(g, g.IC, opcode * 64, ARE_ABSOLUTE) EXCEPT !.IC = @ + 1]]
     ELSE IF inst_info.operand_count = 1
     THEN LET dest_type == get_operand_type(parts[2])
              first_word == opcode * 64 + dest_type * 4
              g1 == [encode_word(g, g.IC, first_word, ARE_ABSOLUTE) EXCEPT !.IC = @ + 1]
          IN [result |-> "SUCCESS", g |-> encode_operand_word(g1, parts[2], dest_type).g]
     ELSE LET src_type == get_operand_type(parts[2])
              dest_type == get_operand_type(parts[3])
              first_word == opcode * 64 + src_type * 16 + dest_type * 4
              g1 == [encode_word(g, g.IC, first_word, ARE_ABSOLUTE) EXCEPT !.IC = @ + 1]
              src_reg == get_register_number(parts[2])
              dest_reg == get_register_number(parts[3])
              g2 == encode_operand_word(g1, parts[2], src_type).g
          IN IF src_type = REGISTER /\ dest_type = REGISTER
             THEN IF src_reg = -1 \/ dest_reg = -1
                  THEN [result |-> "ERROR_INVALID_OPERAND", g |-> g1]
                  ELSE [result |-> "SUCCESS",
                        g |-> [encode_word(g1, g1.IC, src_reg * 64 + dest_reg * 8, ARE_ABSOLUTE)
                                 EXCEPT !.IC = @ + 1]]
             ELSE [result |-> "SUCCESS",
                   g |-> encode_operand_word(g2, parts[3], dest_type).g]

(* the .data loop: one word per value, no check of DC against MEMORY_SIZE *)
RECURSIVE StoreData(_, _, _)
StoreData(g, parts, i) ==
  IF i > Len(parts) THEN g
  ELSE StoreData([g EXCEPT !.data_memory =
                              StoreWord(@, g.DC, string_to_int(parts[i]), ARE_ABSOLUTE),
                           !.DC = @ + 1],
                 parts, i + 1)

(* the .string loop over str[i], i counted from 0 as in the code *)
RECURSIVE StoreChars(_, _, _, _)
StoreChars(g, str, i, end) ==
  IF i >= end THEN g
  ELSE StoreChars([g EXCEPT !.data_memory =
                               StoreWord(@, g.DC, Ord(str[i + 1]), ARE_ABSOLUTE),
                            !.DC = @ + 1],
                  str, i + 1, end)

(* the entry flag set on every symbol of the table, not on the one found *)
MarkEntry_every_symbol(table, name) ==
  [i \in 1..Len(table) |-> [table[i] EXCEPT !.is_entry = 1]]

MarkEntry(table, name) ==
  LET i == CHOOSE j \in 1..Len(table) :
             /\ table[j].name = name
             /\ \A k \in 1..(j - 1) : table[k].name # name
  IN [table EXCEPT ![i].is_entry = 1]

encode_directive(parts, part_count, g) ==
  IF part_count = 0 THEN [result |-> "SUCCESS", g |-> g]
  ELSE IF parts[1] = t_data
  THEN [result |-> "SUCCESS", g |-> StoreData(g, parts, 2)]
  ELSE IF parts[1] = t_string
  THEN IF part_count > 1
       THEN LET str == parts[2]
                len == Len(str)
                start_offset == IF str[1] = "\"" THEN 1 ELSE 3
                end_offset == IF str[len] = "\"" THEN 1 ELSE 3
            IN IF \/ str[1] = "\"" /\ str[len] = "\""
                  \/ Ord(str[1]) >= 128 /\ Ord(str[len]) >= 128
               THEN LET g1 == StoreChars(g, str, start_offset, len - end_offset)
                    IN [result |-> "SUCCESS",
                        g |-> [g1 EXCEPT !.data_memory = StoreWord(@, g1.DC, 0, ARE_ABSOLUTE),
                                         !.DC = @ + 1]]
               ELSE [result |-> "SUCCESS", g |-> g]
       ELSE [result |-> "SUCCESS", g |-> g]
  ELSE IF parts[1] = t_entry
  THEN IF part_count > 1
       THEN IF find_symbol(g.symbol_table, parts[2]) # NULL
            THEN [result |-> "SUCCESS",
                  g |-> [g EXCEPT !.symbol_table = MarkEntry(@, parts[2])]]
            ELSE [result |-> "ERROR_UNDEFINED_LABEL", g |-> g]
       ELSE [result |-> "SUCCESS", g |-> g]
  ELSE IF parts[1] = t_extern
  THEN [result |-> "SUCCESS", g |-> g]
  ELSE IF parts[1] = t_mat
  THEN [result |-> "SUCCESS", g |-> StoreData(g, parts, 3)]
  ELSE [result |-> "SUCCESS", g |-> g]

process_line_second_pass(line, g) ==
  IF is_empty_line(line) \/ is_comment_line(line) THEN [result |-> "SUCCESS", g |-> g]
  ELSE IF Len(line.words) = 0 THEN [result |-> "SUCCESS", g |-> g]
  ELSE IF is_instruction(line.words[1])
       THEN encode_instruction_from_parts(line.words, Len(line.words), g)
  ELSE IF is_directive(line.words[1])
       THEN encode_directive(line.words, Len(line.words), g)
  ELSE [result |-> "SUCCESS", g |-> g]

(* the base-4 letters of the object file *)
base4_chars == <<"a", "b", "c", "d">>

(* the 10 characters '0'/'1' of bits 9..0 of a value, as generate_object_file builds them *)
Binary10(value) ==
  [k \in 1..10 |-> IF (value \div (2 ^ (10 - k))) % 2 = 1 THEN "1" ELSE "0"]

encode_binary10_to_letters(binary10) ==
  IF Len(binary10) # 10 THEN <<"a", "a", "a", "a", "a">>
  ELSE [i \in 1..5 |->
          base4_chars[(IF binary10[2 * i - 1] = "1" THEN 2 ELSE 0)
                      + (IF binary10[2 * i] = "1" THEN 1 ELSE 0) + 1]]

(* the token generate_object_file prints for a memory word: the letters of the
   binary string it builds from the word's value *)
word_letters(word) == encode_binary10_to_letters(Binary10(word.value))

(* five base-4 digits, filled from the right; higher digits are dropped *)
encode_decimal_address_to_letters(address) ==
  [i \in 1..5 |-> base4_chars[((address \div (4 ^ (5 - i))) % 4) + 1]]

(* a count below 64 prints the last three letters only *)
print_specialbase(value) ==
  IF value < 64 THEN SubSeq(encode_decimal_address_to_letters(value), 3, 5)
  ELSE encode_decimal_address_to_letters(value)

(* generate_object_file with the data words addressed from INITIAL_IC instead
   of from the end of the instruction words *)
generate_object_file_data_at_start(g) ==
  LET final_IC == g.IC
      final_DC == g.DC
  IN << [first |-> print_specialbase(final_IC - INITIAL_IC),
         second |-> print_specialbase(final_DC)] >>
     \o [i \in 1..(final_IC - INITIAL_IC) |->
           [first |-> encode_decimal_address_to_letters(INITIAL_IC + (i - 1)),
            second |-> word_letters(ReadWord(g.instruction_memory, i - 1))]]
     \o [i \in 1..final_DC |->
           [first |-> encode_decimal_address_to_letters(INITIAL_IC + (i - 1)),
            second |-> word_letters(ReadWord(g.data_memory, i - 1))]]

(* the records of the .ob file: the header, the instruction words, the data words *)
generate_object_file(g) ==
  LET final_IC == g.IC
      final_DC == g.DC
  IN << [first |-> print_specialbase(final_IC - INITIAL_IC),
         second |-> print_specialbase(final_DC)] >>
     \o [i \in 1..(final_IC - INITIAL_IC) |->
           [first |-> encode_decimal_address_to_letters(INITIAL_IC + (i - 1)),
            second |-> word_letters(ReadWord(g.instruction_memory, i - 1))]]
     \o [i \in 1..final_DC |->
           [first |-> encode_decimal_address_to_letters(final_IC + (i - 1)),
            second |-> word_letters(ReadWord(g.data_memory, i - 1))]]

NoFile == [exists |-> FALSE]

NoProbe == [probing |-> FALSE]

RECURSIVE SelectEntries(_)
SelectEntries(table) ==
  IF table = <<>> THEN <<>>
  ELSE (IF Head(table).is_entry # 0
        THEN << [name |-> Head(table).name, address |-> Head(table).address] >>
        ELSE <<>>) \o SelectEntries(Tail(table))

(* generate_entries_file without its first loop: the file is created whether or
   not a symbol is an entry *)
generate_entries_file_always(g) ==
  [exists |-> TRUE, records |-> SelectEntries(g.symbol_table)]

(* the .ent file: not created when no symbol is an entry *)
generate_entries_file(g) ==
  IF \A i \in 1..Len(g.symbol_table) : g.symbol_table[i].is_entry = 0 THEN NoFile
  ELSE [exists |-> TRUE, records |-> SelectEntries(g.symbol_table)]

(* the .ext file: not created when the list is empty *)
generate_externals_file(g) ==
  IF g.external_references = <<>> THEN NoFile
  ELSE [exists |-> TRUE,
        records |-> [i \in 1..Len(g.external_references) |->
                       [name |-> g.external_references[i].label,
                        address |-> g.external_references[i].address]]]

(***************************************************************************)
(* assembly.c: the macro table and the expander.  A macro's name is the    *)
(* rest of its definition line, kept as the sequence of its tokens.        *)
(***************************************************************************)
find_macro(table, name) ==
  IF \E i \in 1..Len(table) : table[i].name = name
  THEN LET i == CHOOSE j \in 1..Len(table) :
                  /\ table[j].name = name
                  /\ \A k \in 1..(j - 1) : table[k].name # name
       IN table[i]
  ELSE NULL

add_macro(table, name, content, line_count) ==
  << [name |-> name, content |-> content, line_count |-> line_count] >> \o table

(* expand_macro with its loop stopping one line early *)
expand_macro_one_line_short(table, macro_name) ==
  LET macro == find_macro(table, macro_name)
  IN IF macro = NULL THEN <<>>
     ELSE [i \in 1..(macro.line_count - 1) |-> macro.content[i]]

(* the lines expand_macro writes *)
expand_macro(table, macro_name) ==
  LET macro == find_macro(table, macro_name)
  IN IF macro = NULL THEN <<>>
     ELSE [i \in 1..macro.line_count |-> macro.content[i]]

is_macro_start(line) ==
  line.label = NoLabel /\ Len(line.words) >= 2 /\ line.words[1] \in {t_mcro, t_macr}

is_macro_end(line) ==
  line.label = NoLabel /\ line.words \in {<<t_mcroend>>, <<t_endmacr>>}

(* the words left once the text from the first ';' on is cut off *)
RECURSIVE StripComment(_)
StripComment(words) ==
  IF words = <<>> THEN <<>>
  ELSE IF HasChar(Head(words), ";")
       THEN LET w == Head(words)
                k == CHOOSE i \in 1..Len(w) : w[i] = ";" /\ \A j \in 1..(i - 1) : w[j] # ";"
            IN IF k = 1 THEN <<>> ELSE << SubSeq(w, 1, k - 1) >>
  ELSE << Head(words) >> \o StripComment(Tail(words))

(* the first token after the comment and the label are stripped, cut to the
   MAX_LABEL_LENGTH - 1 characters the buffer takes; empty if none *)
macro_candidate(line) ==
  LET p == StripComment(line.words)
  IN IF p = <<>> THEN <<>>
     ELSE IF Len(p[1]) < MAX_LABEL_LENGTH THEN p[1]
     ELSE SubSeq(p[1], 1, MAX_LABEL_LENGTH - 1)

(***************************************************************************)
(* The state: the globals of main.c, first_pass.c, second_pass.c and       *)
(* assembly.c, the locals of process_macros that live across its loop, the *)
(* files, and where process_single_file stands.                            *)
(***************************************************************************)
VARIABLES
  pc,                  \* the step process_single_file takes next
  result,              \* the value process_single_file returns
  as_file,             \* the lines of the .as file read so far
  am_file,             \* the lines written to the .am file
  in_macro,            \* process_macros: inside a definition
  macro_name,          \* process_macros: the name being defined
  macro_content,       \* process_macros: the lines collected (macro_line_count is its length)
  macro_table,         \* the macro list, head first
  IC, DC, error_flag,  \* the counters and the error indicator
  symbol_table,        \* the symbol list, head first
  external_references, \* the external reference list, head first
  instruction_memory, data_memory,
  line_number,         \* the line a pass has just read
  pass1_log,           \* history: per line of Pass 1, what its call returned and left
  pass2_log,           \* history: the same for Pass 2
  ob_file, ent_file, ext_file,  \* the artifacts of the unit at hand
  probe,               \* two stored words and the tokens rendered for them
  argc,                \* main: one more than the number of units named
  arg_i,               \* main: i, the place in argv of the unit at hand
  success_count,       \* main: the units process_single_file returned SUCCESS for
  exit_status,         \* what main returned: <<>> until it returns
  batch_log,           \* history: per unit returned, its place, result, flag and files
  definition_output    \* history: the lines of output when the open definition began

vars ==
  << pc, result, as_file, am_file, in_macro, macro_name, macro_content, macro_table,
     IC, DC, error_flag, symbol_table, external_references,
     instruction_memory, data_memory, line_number, pass1_log, pass2_log,
     ob_file, ent_file, ext_file, probe,
     argc, arg_i, success_count, exit_status, batch_log, definition_output >>

macro_vars == << in_macro, macro_name, macro_content, macro_table >>
pass_vars == << IC, DC, error_flag, symbol_table, external_references,
                instruction_memory, data_memory >>
file_vars == << ob_file, ent_file, ext_file >>
main_vars == << argc, arg_i, success_count, exit_status, batch_log >>

(* the globals the passes work on, as one record *)
Globals ==
  [IC |-> IC, DC |-> DC, symbol_table |-> symbol_table,
   external_references |-> external_references,
   instruction_memory |-> instruction_memory, data_memory |-> data_memory]

SetGlobals(g) ==
  /\ IC' = g.IC
  /\ DC' = g.DC
  /\ symbol_table' = g.symbol_table
  /\ external_references' = g.external_references
  /\ instruction_memory' = g.instruction_memory
  /\ data_memory' = g.data_memory

EmptyMemory == [i \in {} |-> ZeroWord]

(* what the history keeps of one process_line_* call: the value it returned, the
   counters it left and the number of symbols in the table *)
LogEntry(r) ==
  [result |-> r.result, IC |-> r.g.IC, DC |-> r.g.DC, symbols |-> Len(r.g.symbol_table)]

(* the program as loaded: the initialisers of the globals, no file written *)
InitProgram ==
  /\ pc = "process_single_file"
  /\ result = "SUCCESS"
  /\ as_file = <<>>
  /\ am_file = <<>>
  /\ in_macro = 0
  /\ macro_name = <<>>
  /\ macro_content = <<>>
  /\ macro_table = <<>>
  /\ IC = INITIAL_IC
  /\ DC = INITIAL_DC
  /\ error_flag = 0
  /\ symbol_table = <<>>
  /\ external_references = <<>>
  /\ instruction_memory = EmptyMemory
  /\ data_memory = EmptyMemory
  /\ line_number = 0
  /\ pass1_log = <<>>
  /\ pass2_log = <<>>
  /\ ob_file = NoFile
  /\ ent_file = NoFile
  /\ ext_file = NoFile
  /\ arg_i = 1
  /\ success_count = 0
  /\ exit_status = <<>>
  /\ batch_log = <<>>
  /\ definition_output = 0

(* one unit named on the command line *)
Init == InitProgram /\ probe = NoProbe /\ argc = 2

(* main.c: reset_global_state: the counters, the flag and the three lists *)
reset_global_state ==
  /\ IC' = INITIAL_IC
  /\ DC' = INITIAL_DC
  /\ error_flag' = 0
  /\ macro_table' = <<>>
  /\ symbol_table' = <<>>
  /\ external_references' = <<>>

(* process_single_file up to the call of process_macros.  The histories and the
   artifacts are those of the unit at hand: each unit has its own base name *)
StartFile ==
  /\ pc = "process_single_file"
  /\ reset_global_state
  /\ pc' = "process_macros"
  /\ result' = "SUCCESS"
  /\ pass1_log' = <<>>
  /\ pass2_log' = <<>>
  /\ ob_file' = NoFile
  /\ ent_file' = NoFile
  /\ ext_file' = NoFile
  /\ UNCHANGED << as_file, am_file, in_macro, macro_name, macro_content,
                  instruction_memory, data_memory, line_number, probe, definition_output,
                  main_vars >>

(* process_macros: the input file cannot be opened *)
OpenFail ==
  /\ pc = "process_macros"
  /\ result' = "ERROR_FILE_NOT_FOUND"
  /\ pc' = "done"
  /\ UNCHANGED << as_file, am_file, macro_vars, pass_vars, line_number, pass1_log,
                  pass2_log, file_vars, probe, definition_output, main_vars >>

(* process_macros: both files open, the locals initialised *)
OpenFiles ==
  /\ pc = "process_macros"
  /\ as_file' = <<>>
  /\ am_file' = <<>>
  /\ in_macro' = 0
  /\ macro_name' = <<>>
  /\ macro_content' = <<>>
  /\ definition_output' = 0
  /\ pc' = "macro_loop"
  /\ UNCHANGED << result, macro_table, pass_vars, line_number, pass1_log, pass2_log,
                  file_vars, probe, main_vars >>

(* process_macros: one turn of the loop, on the line read *)
MacroLine(line) ==
  /\ pc = "macro_loop"
  /\ as_file' = Append(as_file, line)
  /\ IF is_empty_line(line) \/ is_comment_line(line)
     THEN /\ am_file' = Append(am_file, line)
          /\ UNCHANGED << pc, result, macro_vars >>
     ELSE IF is_macro_start(line)
     THEN /\ in_macro' = 1
          /\ macro_content' = <<>>
          /\ macro_name' = Tail(line.words)
          /\ UNCHANGED << pc, result, am_file, macro_table >>
     ELSE IF is_macro_end(line)
     THEN /\ IF in_macro # 0
             THEN /\ macro_table' = IF Len(macro_content) > 0
                                    THEN add_macro(macro_table, macro_name, macro_content,
                                                   Len(macro_content))
                                    ELSE macro_table
                  /\ in_macro' = 0
                  /\ macro_content' = <<>>
             ELSE UNCHANGED << macro_table, in_macro, macro_content >>
          /\ UNCHANGED << pc, result, am_file, macro_name >>
     ELSE IF in_macro # 0
     THEN IF Len(macro_content) >= MAX_MACRO_LINES
          THEN /\ result' = "ERROR_LINE_TOO_LONG"
               /\ pc' = "done"
               /\ UNCHANGED << am_file, macro_vars >>
          ELSE /\ macro_content' = Append(macro_content, line)
               /\ UNCHANGED << pc, result, am_file, in_macro, macro_name, macro_table >>
     ELSE LET candidate == macro_candidate(line)
              macro == IF candidate # <<>> THEN find_macro(macro_table, <<candidate>>)
                       ELSE NULL
          IN /\ am_file' = IF macro # NULL
                           THEN am_file \o expand_macro(macro_table, macro.name)
                           ELSE Append(am_file, line)
             /\ UNCHANGED << pc, result, macro_vars >>
  /\ definition_output' = IF is_macro_start(line) /\ in_macro = 0 THEN Len(am_file)
                          ELSE IF is_macro_end(line) THEN 0
                          ELSE definition_output
  /\ UNCHANGED << pass_vars, line_number, pass1_log, pass2_log, file_vars, probe, main_vars >>

(* process_macros: end of input; process_single_file goes on to first_pass *)
MacroEnd ==
  /\ pc = "macro_loop"
  /\ result' = "SUCCESS"
  /\ pc' = "first_pass_loop"
  /\ line_number' = 0
  /\ UNCHANGED << as_file, am_file, macro_vars, pass_vars, pass1_log, pass2_log,
                  file_vars, probe, definition_output, main_vars >>

(* first_pass: one turn of the loop; an error of the line is printed, nothing else *)
FirstPassLine ==
  /\ pc = "first_pass_loop"
  /\ line_number < Len(am_file)
  /\ LET r == process_line_first_pass(am_file[line_number + 1], Globals)
     IN /\ SetGlobals(r.g)
        /\ pass1_log' = Append(pass1_log, LogEntry(r))
  /\ line_number' = line_number + 1
  /\ UNCHANGED << pc, result, as_file, am_file, macro_vars, error_flag, pass2_log,
                  file_vars, probe, definition_output, main_vars >>

(* first_pass: after the loop: the rebase of the data symbols and the return *)
FirstPassEnd ==
  /\ pc = "first_pass_loop"
  /\ line_number = Len(am_file)
  /\ symbol_table' = RebaseData(symbol_table, IC)
  /\ result' = IF error_flag # 0 THEN "ERROR_INVALID_SYNTAX" ELSE "SUCCESS"
  /\ pc' = IF error_flag # 0 THEN "done" ELSE "second_pass"
  /\ UNCHANGED << as_file, am_file, macro_vars, IC, DC, error_flag, external_references,
                  instruction_memory, data_memory, line_number, pass1_log, pass2_log,
                  file_vars, probe, definition_output, main_vars >>

(* second_pass without its first two assignments: the counters stay where
   first_pass left them *)
SecondPassStart_counters_kept ==
  /\ pc = "second_pass"
  /\ line_number' = 0
  /\ pc' = "second_pass_loop"
  /\ UNCHANGED << result, as_file, am_file, macro_vars, IC, DC, error_flag, symbol_table,
                  external_references, instruction_memory, data_memory, pass1_log,
                  pass2_log, file_vars, probe, definition_output, main_vars >>

(* second_pass: the counters start over *)
SecondPassStart ==
  /\ pc = "second_pass"
  /\ IC' = INITIAL_IC
  /\ DC' = INITIAL_DC
  /\ line_number' = 0
  /\ pc' = "second_pass_loop"
  /\ UNCHANGED << result, as_file, am_file, macro_vars, error_flag, symbol_table,
                  external_references, instruction_memory, data_memory, pass1_log,
                  pass2_log, file_vars, probe, definition_output, main_vars >>

(* a store of encode_directive went beyond the end of data_memory: the
   behaviour is undefined *)
outside_arrays(g) == \E a \in DOMAIN g.data_memory : a >= MEMORY_SIZE

(* where second_pass stands after the stores of a line: in its loop, or, the
   behaviour being undefined after a store outside the array, either in its
   loop with the word stored beyond the array or stopped by the system *)
AfterStores(g) ==
  IF outside_arrays(g) THEN {"second_pass_loop", "aborted"} ELSE {"second_pass_loop"}

(* the loop of second_pass left at the first line that returns an error *)
SecondPassLine_stops_at_error ==
  /\ pc = "second_pass_loop"
  /\ line_number < Len(am_file)
  /\ LET r == process_line_second_pass(am_file[line_number + 1], Globals)
     IN /\ SetGlobals(r.g)
        /\ pass2_log' = Append(pass2_log, LogEntry(r))
        /\ error_flag' = IF r.result # "SUCCESS" THEN 1 ELSE error_flag
        /\ line_number' = IF r.result # "SUCCESS" THEN Len(am_file) ELSE line_number + 1
  /\ pc' \in AfterStores(process_line_second_pass(am_file[line_number + 1], Globals).g)
  /\ UNCHANGED << result, as_file, am_file, macro_vars, pass1_log, file_vars, probe,
                  definition_output, main_vars >>

(* second_pass: one turn of the loop; an error of the line sets error_flag *)
SecondPassLine ==
  /\ pc = "second_pass_loop"
  /\ line_number < Len(am_file)
  /\ LET r == process_line_second_pass(am_file[line_number + 1], Globals)
     IN /\ SetGlobals(r.g)
        /\ pass2_log' = Append(pass2_log, LogEntry(r))
        /\ error_flag' = IF r.result # "SUCCESS" THEN 1 ELSE error_flag
  /\ line_number' = line_number + 1
  /\ pc' \in AfterStores(process_line_second_pass(am_file[line_number + 1], Globals).g)
  /\ UNCHANGED << result, as_file, am_file, macro_vars, pass1_log, file_vars, probe,
                  definition_output, main_vars >>

(* the return of second_pass not looked at: stage 4 is reached whatever it was *)
SecondPassEnd_result_ignored ==
  /\ pc = "second_pass_loop"
  /\ line_number = Len(am_file)
  /\ result' = IF error_flag # 0 THEN "ERROR_INVALID_SYNTAX" ELSE "SUCCESS"
  /\ pc' = "generate_output"
  /\ UNCHANGED << as_file, am_file, macro_vars, pass_vars, line_number, pass1_log,
                  pass2_log, file_vars, probe, definition_output, main_vars >>

(* second_pass: after the loop *)
SecondPassEnd ==
  /\ pc = "second_pass_loop"
  /\ line_number = Len(am_file)
  /\ result' = IF error_flag # 0 THEN "ERROR_INVALID_SYNTAX" ELSE "SUCCESS"
  /\ pc' = IF error_flag # 0 THEN "done" ELSE "generate_output"
  /\ UNCHANGED << as_file, am_file, macro_vars, pass_vars, line_number, pass1_log,
                  pass2_log, file_vars, probe, definition_output, main_vars >>

(* process_single_file, stage 4: the three files, only with error_flag clear *)
GenerateOutput ==
  /\ pc = "generate_output"
  /\ IF error_flag = 0
     THEN /\ ob_file' = [exists |-> TRUE, records |-> generate_object_file(Globals)]
          /\ ent_file' = generate_entries_file(Globals)
          /\ ext_file' = generate_externals_file(Globals)
          /\ UNCHANGED result
     ELSE /\ result' = "ERROR_INVALID_SYNTAX"
          /\ UNCHANGED file_vars
  /\ pc' = "done"
  /\ UNCHANGED << as_file, am_file, macro_vars, pass_vars, line_number, pass1_log,
                  pass2_log, probe, definition_output, main_vars >>

(* main: fewer than one unit named: the usage message and the return of 1 *)
Usage ==
  /\ pc = "process_single_file"
  /\ argc < 2
  /\ exit_status' = <<1>>
  /\ pc' = "exit"
  /\ UNCHANGED << result, as_file, am_file, macro_vars, pass_vars, line_number,
                  pass1_log, pass2_log, file_vars, probe, definition_output,
                  argc, arg_i, success_count, batch_log >>

(* the loop of main left at the first unit that fails *)
FileReturned_stops_at_failure ==
  /\ pc = "done"
  /\ success_count' = IF result = "SUCCESS" THEN success_count + 1 ELSE success_count
  /\ batch_log' = Append(batch_log, [arg |-> arg_i, result |-> result,
                                     error_flag |-> error_flag,
                                     written |-> ob_file # NoFile])
  /\ arg_i' = arg_i + 1
  /\ pc' = IF arg_i + 1 < argc /\ result = "SUCCESS" THEN "process_single_file"
           ELSE "main_return"
  /\ UNCHANGED << result, as_file, am_file, macro_vars, pass_vars, line_number,
                  pass1_log, pass2_log, file_vars, probe, definition_output, argc,
                  exit_status >>

(* main: process_single_file has returned: the count, and the next turn of the loop *)
FileReturned ==
  /\ pc = "done"
  /\ success_count' = IF result = "SUCCESS" THEN success_count + 1 ELSE success_count
  /\ batch_log' = Append(batch_log, [arg |-> arg_i, result |-> result,
                                     error_flag |-> error_flag,
                                     written |-> ob_file # NoFile])
  /\ arg_i' = arg_i + 1
  /\ pc' = IF arg_i + 1 < argc THEN "process_single_file" ELSE "main_return"
  /\ UNCHANGED << result, as_file, am_file, macro_vars, pass_vars, line_number,
                  pass1_log, pass2_log, file_vars, probe, definition_output, argc,
                  exit_status >>

(* main: after the loop: 0 when every unit was counted, 1 otherwise *)
MainReturn ==
  /\ pc = "main_return"
  /\ exit_status' = IF success_count = argc - 1 THEN <<0>> ELSE <<1>>
  /\ pc' = "exit"
  /\ UNCHANGED << result, as_file, am_file, macro_vars, pass_vars, line_number,
                  pass1_log, pass2_log, file_vars, probe, definition_output,
                  argc, arg_i, success_count, batch_log >>

(***************************************************************************)
(* The source lines the specifications read.                               *)
(***************************************************************************)
Line(label, words) == [label |-> label, words |-> words]

n_X == <<"X">>
n_Y == <<"Y">>
o_r1 == <<"r", "1">>
o_r2 == <<"r", "2">>
o_imm5 == <<"#", "5">>
o_ind == <<"*", "r", "1">>
t_foo == <<"f", "o", "o">>
t_comment == <<";", "c">>
t_quoted_ab == <<"\"", "a", "b", "\"">>

(* a line is the tokens split_line cuts it into: the line .string "a b" has the
   three tokens .string, "a and b".  Every instruction has at least the operands
   its catalog entry counts: with fewer, encode_instruction_from_parts reads
   parts[] beyond the tokens *)
SrcLines ==
  { Line(n_X, <<t_mov, o_r1, o_r2>>),
    Line(NoLabel, <<t_mov, n_X, o_r1>>),
    Line(NoLabel, <<t_mov, o_imm5, o_r1>>),
    Line(n_Y, <<t_inc, o_r1>>),
    Line(NoLabel, <<t_foo, o_r1>>),
    Line(n_X, <<t_data, <<"7">>, <<"-", "1">> >>),
    Line(n_Y, <<t_string, t_quoted_ab>>),
    Line(NoLabel, <<t_string, <<"\"", "a">>, <<"b", "\"">> >>),
    Line(NoLabel, <<t_extern, n_X>>),
    Line(NoLabel, <<t_entry, n_X>>),
    Line(NoLabel, <<t_comment>>),
    Line(NoLabel, <<>>) }

Next ==
  \/ StartFile
  \/ OpenFail
  \/ OpenFiles
  \/ \E line \in SrcLines : Len(as_file) < MaxLines /\ MacroLine(line)
  \/ MacroEnd
  \/ FirstPassLine
  \/ FirstPassEnd
  \/ SecondPassStart
  \/ SecondPassLine
  \/ SecondPassEnd
  \/ GenerateOutput

Spec == Init /\ [][Next]_vars

(***************************************************************************)
(* The macro stage on its own, on lines that define and invoke macros.     *)
(***************************************************************************)
n_M == <<"M">>

MacroLines ==
  { Line(NoLabel, <<t_macr, n_M>>),
    Line(NoLabel, <<t_macr, t_endmacr>>),
    Line(NoLabel, <<t_endmacr>>),
    Line(NoLabel, <<n_M>>),
    Line(n_X, <<n_M, t_comment>>),
    Line(NoLabel, <<t_mov, o_r1, o_r2>>) }

NextMacros ==
  \/ StartFile
  \/ OpenFail
  \/ OpenFiles
  \/ \E line \in MacroLines : Len(as_file) < MaxMacroInput /\ MacroLine(line)
  \/ MacroEnd

SpecMacros == Init /\ [][NextMacros]_vars

(***************************************************************************)
(* Units with definitions that hold blank lines, comment lines and         *)
(* definition-start lines, or that the end of the input cuts short.        *)
(***************************************************************************)
CollectLines ==
  { Line(NoLabel, <<t_macr, n_M>>),
    Line(NoLabel, <<t_endmacr>>),
    Line(NoLabel, <<t_comment>>),
    Line(NoLabel, <<>>),
    Line(NoLabel, <<n_M>>),
    Line(NoLabel, <<t_mov, o_r1, o_r2>>) }

NextCollect ==
  \/ StartFile
  \/ OpenFail
  \/ OpenFiles
  \/ \E line \in CollectLines : Len(as_file) < MaxCollectInput /\ MacroLine(line)
  \/ MacroEnd
  \/ FirstPassLine
  \/ FirstPassEnd
  \/ SecondPassStart
  \/ SecondPassLine
  \/ SecondPassEnd
  \/ GenerateOutput

SpecCollect == Init /\ [][NextCollect]_vars

(***************************************************************************)
(* Units of .data lines, each of as many values as a line can hold, up to   *)
(* more data words than data_memory has cells.                             *)
(***************************************************************************)
CapacityLines ==
  { Line(NoLabel, <<t_data>> \o [k \in 1..ValuesPerLine |-> <<"1">>]) }

NextCapacity ==
  \/ StartFile
  \/ OpenFail
  \/ OpenFiles
  \/ \E line \in CapacityLines : Len(as_file) < MaxCapacityLines /\ MacroLine(line)
  \/ MacroEnd
  \/ FirstPassLine
  \/ FirstPassEnd
  \/ SecondPassStart
  \/ SecondPassLine
  \/ SecondPassEnd
  \/ GenerateOutput

SpecCapacity == Init /\ [][NextCapacity]_vars

(***************************************************************************)
(* The rendering of memory words on its own: two words as encode_word      *)
(* stores them, and the tokens generate_object_file prints for them.       *)
(***************************************************************************)
Payloads == (0..MaxPayload) \cup {ValueMod - 1 - p : p \in 0..MaxPayload}

StoredWords ==
  { ReadWord(StoreWord(EmptyMemory, 0, payload, tag), 0) :
      payload \in Payloads, tag \in {ARE_ABSOLUTE, ARE_EXTERNAL, ARE_RELOCATABLE} }

InitWords ==
  /\ InitProgram
  /\ argc = 2
  /\ probe \in [probing : {TRUE}, rendered : {FALSE},
                first : StoredWords, second : StoredWords,
                first_token : {<<>>}, second_token : {<<>>}]

RenderWords ==
  /\ probe.probing
  /\ ~probe.rendered
  /\ probe' = [probe EXCEPT !.rendered = TRUE,
                            !.first_token = word_letters(probe.first),
                            !.second_token = word_letters(probe.second)]
  /\ UNCHANGED << pc, result, as_file, am_file, macro_vars, pass_vars, line_number,
                  pass1_log, pass2_log, file_vars, main_vars, definition_output >>

NextWords == RenderWords

SpecWords == InitWords /\ [][NextWords]_vars

(***************************************************************************)
(* The pipeline on units of instruction lines: every mnemonic of the       *)
(* catalog with as many operands as it counts, each operand of every type. *)
(***************************************************************************)
SizingOperands == {o_imm5, n_X, o_ind, o_r1, o_r2}

SizingLines ==
  { Line(n_X, <<instruction_table[m].name>>) :
      m \in {k \in 1..Len(instruction_table) : instruction_table[k].operand_count = 0} }
  \cup
  { Line(n_X, <<instruction_table[m[1]].name, m[2]>>) :
      m \in {k \in 1..Len(instruction_table) : instruction_table[k].operand_count = 1}
            \X SizingOperands }
  \cup
  { Line(n_X, <<instruction_table[m[1]].name, m[2], m[3]>>) :
      m \in {k \in 1..Len(instruction_table) : instruction_table[k].operand_count = 2}
            \X SizingOperands \X SizingOperands }

NextSizing ==
  \/ StartFile
  \/ OpenFail
  \/ OpenFiles
  \/ \E line \in SizingLines : Len(as_file) < MaxSizingLines /\ MacroLine(line)
  \/ MacroEnd
  \/ FirstPassLine
  \/ FirstPassEnd
  \/ SecondPassStart
  \/ SecondPassLine
  \/ SecondPassEnd
  \/ GenerateOutput

SpecSizing == Init /\ [][NextSizing]_vars

(***************************************************************************)
(* main on a batch: up to MaxFiles units of up to MaxBatchLines lines      *)
(* each, a unit that writes instruction words, one that writes a data      *)
(* word, one whose Pass 2 fails.                                           *)
(***************************************************************************)
BatchLines ==
  { Line(n_X, <<t_mov, o_r1, o_r2>>),
    Line(n_X, <<t_data, <<"7">> >>),
    Line(NoLabel, <<t_entry, n_X>>) }

InitBatch == InitProgram /\ probe = NoProbe /\ argc \in 1..(MaxFiles + 1)

NextBatch ==
  \/ Usage
  \/ argc >= 2 /\ StartFile
  \/ OpenFail
  \/ OpenFiles
  \/ \E line \in BatchLines : Len(as_file) < MaxBatchLines /\ MacroLine(line)
  \/ MacroEnd
  \/ FirstPassLine
  \/ FirstPassEnd
  \/ SecondPassStart
  \/ SecondPassLine
  \/ SecondPassEnd
  \/ GenerateOutput
  \/ FileReturned
  \/ MainReturn

SpecBatch == InitBatch /\ [][NextBatch]_vars

(***************************************************************************)
(* What the histories tell about one line of the expanded file.            *)
(***************************************************************************)
IC_before(log, i) == IF i = 1 THEN INITIAL_IC ELSE log[i - 1].IC
DC_before(log, i) == IF i = 1 THEN INITIAL_DC ELSE log[i - 1].DC
symbols_before(log, i) == IF i = 1 THEN 0 ELSE log[i - 1].symbols

(* the words a pass counted or emitted for line i *)
words_of_line(log, i) == log[i].IC - IC_before(log, i)

(* Pass 1 put a symbol in the table on line i; the table grows at its head only,
   so the symbol stays at the same distance from the end *)
symbol_added(i) == pass1_log[i].symbols > symbols_before(pass1_log, i)
symbol_of_line(i) == symbol_table[Len(symbol_table) - pass1_log[i].symbols + 1]

(* name was bound to a symbol that is not external when Pass 1 came to line i *)
bound_before(i, name) ==
  \E k \in (Len(symbol_table) - symbols_before(pass1_log, i) + 1)..Len(symbol_table) :
     symbol_table[k].name = name /\ symbol_table[k].is_external = 0

(* first_pass has returned *)
first_pass_returned ==
  \/ pc \in {"second_pass", "second_pass_loop", "generate_output"}
  \/ pc = "done" /\ result \notin {"ERROR_FILE_NOT_FOUND", "ERROR_LINE_TOO_LONG"}

(* the value of IC when the loop of first_pass ended *)
pass1_final_IC == IF pass1_log = <<>> THEN INITIAL_IC ELSE pass1_log[Len(pass1_log)].IC

is_instruction_line(line) == line.words # <<>> /\ is_instruction(line.words[1])

(* the operands of the line are as many as the catalog counts and each of a type
   the catalog allows in its place *)
legal_combination(line) ==
  LET info == get_instruction_info(line.words[1])
      operands == Tail(line.words)
  IN /\ Len(operands) = info.operand_count
     /\ info.operand_count = 1 =>
          info.valid_dest_types[get_operand_type(operands[1]) + 1] = 1
     /\ info.operand_count = 2 =>
          /\ info.valid_src_types[get_operand_type(operands[1]) + 1] = 1
          /\ info.valid_dest_types[get_operand_type(operands[2]) + 1] = 1

no_artifact == ob_file = NoFile /\ ent_file = NoFile /\ ext_file = NoFile

(***************************************************************************)
(* The claims.                                                             *)
(***************************************************************************)

(* C1: for every instruction line with a legal mnemonic and operand types, the
   words Pass 1 counted for the line are as many as the words Pass 2 emitted
   for it. *)
C1_Pass1CountIsPass2Count ==
  \A i \in 1..Len(pass2_log) :
     (is_instruction_line(am_file[i]) /\ legal_combination(am_file[i]))
       => words_of_line(pass1_log, i) = words_of_line(pass2_log, i)

(* C2: a Pass 2 instruction line with a Direct operand whose name is not in the
   symbol table returns UndefinedLabel, sets the error indicator, and no
   artifact is written. *)
C2_UndefinedLabelReported ==
  \A i \in 1..Len(pass2_log) :
     ( /\ is_instruction_line(am_file[i])
       /\ \E k \in 2..Len(am_file[i].words) :
             /\ get_operand_type(am_file[i].words[k]) = DIRECT
             /\ find_symbol(symbol_table, am_file[i].words[k]) = NULL )
       => /\ pass2_log[i].result = "ERROR_UNDEFINED_LABEL"
          /\ error_flag = 1
          /\ no_artifact

(* C3: when a line of the unit got an error in Pass 1 or in Pass 2, none of the
   three artifacts is written. *)
C3_LineErrorNoArtifact ==
  ( \/ \E i \in 1..Len(pass1_log) : pass1_log[i].result # "SUCCESS"
    \/ \E i \in 1..Len(pass2_log) : pass2_log[i].result # "SUCCESS" )
    => no_artifact

(* C4: the generation stage is reached only with the error indicator clear and
   second_pass returned with success, and an artifact exists only after such a
   generation; with the indicator set after Pass 2 none is written. *)
C4_GenerateOnlyWhenClear ==
  /\ pc = "generate_output" => (error_flag = 0 /\ result = "SUCCESS")
  /\ ~no_artifact =>
       /\ pc = "done"
       /\ error_flag = 0
       /\ result = "SUCCESS"
       /\ Len(pass2_log) = Len(am_file)
       /\ \A i \in 1..Len(pass2_log) : pass2_log[i].result = "SUCCESS"
  /\ error_flag # 0 => no_artifact

(* C4: the three artifacts written for a unit of three lines *)
C4_Witness ==
  /\ pc = "done"
  /\ Len(am_file) = MaxLines
  /\ ob_file # NoFile
  /\ ent_file # NoFile
  /\ ext_file # NoFile

(* C5: a labelled instruction, .data or .string line whose label is already
   bound to a symbol that is not external returns DuplicateLabel in Pass 1. *)
C5_RedeclarationIsDuplicate ==
  \A i \in 1..Len(pass1_log) :
     ( /\ am_file[i].label # NoLabel
       /\ am_file[i].words # <<>>
       /\ \/ is_instruction(am_file[i].words[1])
          \/ am_file[i].words[1] \in {t_data, t_string}
       /\ bound_before(i, am_file[i].label) )
       => pass1_log[i].result = "ERROR_DUPLICATE_LABEL"

is_extern_line(line) ==
  line.words # <<>> /\ line.words[1] = t_extern /\ Len(line.words) > 1

(* C6: a line ".extern NAME" in Pass 1 returns success, puts a new symbol NAME
   in the table, external and at address 0, and find_symbol then gives that
   symbol, whatever was declared before; the symbol keeps address 0. *)
C6_ExternAlwaysRegisters ==
  \A i \in 1..Len(pass1_log) :
     is_extern_line(am_file[i]) =>
       /\ pass1_log[i].result = "SUCCESS"
       /\ symbol_added(i)
       /\ symbol_of_line(i).name = am_file[i].words[2]
       /\ symbol_of_line(i).is_external = 1
       /\ symbol_of_line(i).address = 0
       /\ find_symbol(SubSeq(symbol_table,
                             Len(symbol_table) - pass1_log[i].symbols + 1,
                             Len(symbol_table)),
                      am_file[i].words[2]) = symbol_of_line(i)

(* C6: Pass 1 has read ".extern X" after X was bound by an instruction line and
   after an earlier ".extern X" *)
C6_Witness ==
  /\ Len(pass1_log) = MaxLines
  /\ am_file[1] = Line(n_X, <<t_mov, o_r1, o_r2>>)
  /\ am_file[2] = Line(NoLabel, <<t_extern, n_X>>)
  /\ am_file[3] = Line(NoLabel, <<t_extern, n_X>>)

(* C7: after Pass 1 every symbol bound by an instruction line (neither data nor
   external) has an address a with INITIAL_IC <= a < the final IC. *)
C7_InstructionLabelInRange ==
  first_pass_returned =>
    \A k \in 1..Len(symbol_table) :
       (symbol_table[k].is_data = 0 /\ symbol_table[k].is_external = 0)
         => (INITIAL_IC <= symbol_table[k].address
             /\ symbol_table[k].address < pass1_final_IC)

(* C8: after Pass 1 the symbol a labelled .data or .string line put in the table
   has the address final IC + DC before that line, and the symbol of a line that
   is not a data line has the address it was given: IC before the line for an
   instruction line, 0 for .extern. *)
C8_DataRebasedOnce ==
  first_pass_returned =>
    \A i \in 1..Len(pass1_log) :
       symbol_added(i) =>
         IF am_file[i].words[1] \in {t_data, t_string}
         THEN /\ symbol_of_line(i).is_data = 1
              /\ symbol_of_line(i).address = pass1_final_IC + DC_before(pass1_log, i)
         ELSE /\ symbol_of_line(i).is_data = 0
              /\ symbol_of_line(i).address =
                   IF is_extern_line(am_file[i]) THEN 0 ELSE IC_before(pass1_log, i)

(* C8: the rebase done, with final IC = 100, on a table with a data symbol
   declared at DC = 0, one declared at DC = 2 and an external symbol *)
C8_Witness ==
  /\ pc = "second_pass"
  /\ am_file = << Line(n_X, <<t_data, <<"7">>, <<"-", "1">> >>),
                  Line(n_Y, <<t_string, t_quoted_ab>>),
                  Line(NoLabel, <<t_extern, n_X>>) >>
  /\ pass1_final_IC = INITIAL_IC
  /\ find_symbol(symbol_table, n_Y).address = INITIAL_IC + 2

(* the first token of a line once a trailing comment is cut off; the label is
   not part of the words *)
first_token(line) ==
  IF line.words = <<>> THEN <<>>
  ELSE LET w == line.words[1]
           cut == { i \in 1..Len(w) : w[i] = ";" }
       IN IF cut = {} THEN w
          ELSE SubSeq(w, 1, (CHOOSE i \in cut : \A j \in cut : i <= j) - 1)

(* the step reads a line in Normal state whose first token is the name of the
   k-th macro of the table *)
reads_name_of(k) ==
  /\ pc = "macro_loop"
  /\ Len(as_file') = Len(as_file) + 1
  /\ in_macro = 0
  /\ macro_table[k].name = << first_token(as_file'[Len(as_file')]) >>

(* C9 as stated: for every registered macro, a line read in Normal state whose
   first token (comment and label stripped) is the macro's name appends exactly
   the macro's stored lines, in order, to the expanded output. *)
C9_InvocationEmitsBody ==
  [][ \A k \in 1..Len(macro_table) :
        reads_name_of(k) => am_file' = am_file \o macro_table[k].content ]_vars

(* C9 amended: the same for the most recently registered macro of its name, a
   name that fits the name buffer, and a line that is neither a
   definition-start line nor a terminator line; the
   lines appended are the stored ones, as many as the macro counts, unchanged
   even where their own first token names a macro. *)
C9_LookupHitEmitsBody ==
  [][ \A k \in 1..Len(macro_table) :
        ( /\ reads_name_of(k)
          /\ Len(macro_table[k].name[1]) < MAX_LABEL_LENGTH
          /\ \A j \in 1..(k - 1) : macro_table[j].name # macro_table[k].name
          /\ ~is_macro_start(as_file'[Len(as_file')])
          /\ ~is_macro_end(as_file'[Len(as_file')]) )
          => /\ am_file' = am_file \o macro_table[k].content
             /\ Len(am_file') = Len(am_file) + macro_table[k].line_count ]_vars

(* C9: macro M, whose one body line is "M", invoked by "X: M ;c": the output is
   the body line, not expanded again *)
C9_Witness ==
  /\ pc = "macro_loop"
  /\ as_file = << Line(NoLabel, <<t_macr, n_M>>), Line(NoLabel, <<n_M>>),
                  Line(NoLabel, <<t_endmacr>>), Line(n_X, <<n_M, t_comment>>) >>
  /\ am_file = << Line(NoLabel, <<n_M>>) >>

(* C10: two stored words (payload, tag) whose rendered tokens are equal are the
   same word: the token decides the payload and the tag. *)
C10_TokenDecidesWord ==
  (probe.probing /\ probe.rendered /\ probe.first_token = probe.second_token)
    => probe.first = probe.second

(* the counters as the loop of second_pass left them *)
pass2_final_IC == IF pass2_log = <<>> THEN INITIAL_IC ELSE pass2_log[Len(pass2_log)].IC
pass2_final_DC == IF pass2_log = <<>> THEN INITIAL_DC ELSE pass2_log[Len(pass2_log)].DC

(* the number a sequence of base-4 letters stands for *)
RECURSIVE letters_value(_)
letters_value(letters) ==
  IF letters = <<>> THEN 0
  ELSE 4 * letters_value(SubSeq(letters, 1, Len(letters) - 1))
       + (CHOOSE k \in 0..3 : base4_chars[k + 1] = letters[Len(letters)])

(* C11: the first record of the object file reads (final IC - INITIAL_IC, final
   DC) of Pass 2; then comes one record per instruction word, at the addresses
   INITIAL_IC .. final IC - 1 in order, then one record per data word, at the
   addresses final IC .. final IC + final DC - 1 in order, and nothing else. *)
C11_ObjectFileLayout ==
  ob_file # NoFile =>
    LET records == ob_file.records
        n == pass2_final_IC - INITIAL_IC
        d == pass2_final_DC
    IN /\ Len(records) = 1 + n + d
       /\ letters_value(records[1].first) = n
       /\ letters_value(records[1].second) = d
       /\ \A i \in 1..n :
            /\ letters_value(records[1 + i].first) = INITIAL_IC + i - 1
            /\ records[1 + i].second = word_letters(ReadWord(instruction_memory, i - 1))
       /\ \A j \in 1..d :
            /\ letters_value(records[1 + n + j].first) = pass2_final_IC + j - 1
            /\ records[1 + n + j].second = word_letters(ReadWord(data_memory, j - 1))
       /\ \A i \in 2..(Len(records) - 1) :
            letters_value(records[i + 1].first) = letters_value(records[i].first) + 1

(* C11: an object file written for two instruction words and three data words *)
C11_Witness ==
  /\ ob_file # NoFile
  /\ pass2_final_IC = INITIAL_IC + 2
  /\ pass2_final_DC = 3
  /\ Len(ob_file.records) = 6

(* the operands encode_instruction_from_parts encodes on line i: the positions
   in the words of the line *)
operand_positions(line) ==
  IF is_instruction_line(line)
  THEN 2..(get_instruction_info(line.words[1]).operand_count + 1)
  ELSE {}

(* the uses of external symbols as Direct operands on the lines Pass 2 has done *)
external_uses ==
  { u \in (1..Len(pass2_log)) \X (2..3) :
      /\ u[2] \in operand_positions(am_file[u[1]])
      /\ get_operand_type(am_file[u[1]].words[u[2]]) = DIRECT
      /\ find_symbol(symbol_table, am_file[u[1]].words[u[2]]) # NULL
      /\ find_symbol(symbol_table, am_file[u[1]].words[u[2]]).is_external # 0 }

(* C12: in and after Pass 2 the external references and the External-tagged
   instruction words correspond one to one: each record names an external
   symbol and the address of an External-tagged word of payload 0, no two
   records share an address, every External-tagged word has its record, and
   there are as many records as uses of external symbols as Direct operands. *)
C12_ExternalReferencesMatchWords ==
  /\ \A r \in 1..Len(external_references) :
       /\ INITIAL_IC <= external_references[r].address
       /\ external_references[r].address < IC
       /\ ReadWord(instruction_memory, external_references[r].address - INITIAL_IC)
            = [value |-> 0, are |-> ARE_EXTERNAL]
       /\ find_symbol(symbol_table, external_references[r].label) # NULL
       /\ find_symbol(symbol_table, external_references[r].label).is_external # 0
       /\ \A q \in 1..Len(external_references) :
            external_references[q].address = external_references[r].address => q = r
  /\ \A a \in DOMAIN instruction_memory :
       instruction_memory[a].are = ARE_EXTERNAL =>
         \E r \in 1..Len(external_references) :
            external_references[r].address = INITIAL_IC + a
  /\ Len(external_references) = Cardinality(external_uses)

(* C12: Pass 2 has encoded two uses of the external symbol X *)
C12_Witness ==
  /\ pc = "second_pass_loop"
  /\ Len(pass2_log) = MaxLines
  /\ am_file[1] = Line(NoLabel, <<t_extern, n_X>>)
  /\ am_file[2] = Line(NoLabel, <<t_mov, n_X, o_r1>>)
  /\ am_file[3] = Line(NoLabel, <<t_mov, n_X, o_r1>>)
  /\ Len(external_references) = 2

(* name was in the symbol table when Pass 1 came to line i *)
in_table_before(i, name) ==
  \E k \in (Len(symbol_table) - symbols_before(pass1_log, i) + 1)..Len(symbol_table) :
     symbol_table[k].name = name

(* a register of the machine: r0 .. r7 *)
is_register(operand) ==
  get_operand_type(operand) = REGISTER /\ get_register_number(operand) \in 0..7

(* the line is a two-operand instruction on two registers *)
register_pair_line(line) ==
  /\ is_instruction_line(line)
  /\ get_instruction_info(line.words[1]).operand_count = 2
  /\ Len(line.words) >= 3
  /\ is_register(line.words[2])
  /\ is_register(line.words[3])

(* C13: for a two-operand instruction on two registers, the label of the line,
   when the table does not hold the name yet, is bound to the value IC has when Pass 1
   comes to the line, and Pass 2 emits exactly 2 words, both Absolute: the
   first holds the opcode and Register in both operand-type fields, the second
   the two register numbers, each in a field of its own. *)
C13_RegisterPairTwoWords ==
  \A i \in 1..Len(pass1_log) :
     register_pair_line(am_file[i]) =>
       /\ (am_file[i].label # NoLabel /\ ~in_table_before(i, am_file[i].label)) =>
            /\ symbol_added(i)
            /\ symbol_of_line(i).name = am_file[i].label
            /\ symbol_of_line(i).address = IC_before(pass1_log, i)
       /\ i <= Len(pass2_log) =>
            LET at == IC_before(pass2_log, i) - INITIAL_IC
                first == ReadWord(instruction_memory, at)
                second == ReadWord(instruction_memory, at + 1)
            IN /\ words_of_line(pass2_log, i) = 2
               /\ pass2_log[i].result = "SUCCESS"
               /\ first.are = ARE_ABSOLUTE
               /\ first.value \div 64 = get_instruction_info(am_file[i].words[1]).opcode
               /\ (first.value \div 16) % 4 = REGISTER
               /\ (first.value \div 4) % 4 = REGISTER
               /\ first.value % 4 = 0
               /\ second.are = ARE_ABSOLUTE
               /\ second.value \div 64 = get_register_number(am_file[i].words[2])
               /\ (second.value \div 8) % 8 = get_register_number(am_file[i].words[3])
               /\ second.value % 8 = 0

(* C13: Pass 2 has encoded "X: cmp r2, r1" *)
C13_Witness ==
  /\ pc = "second_pass_loop"
  /\ am_file = << Line(n_X, <<t_cmp, o_r2, o_r1>>) >>
  /\ Len(pass2_log) = 1
  /\ IC = INITIAL_IC + 2

(* the text of the tokens from the k-th on, one space between two tokens *)
RECURSIVE text_from(_, _)
text_from(words, k) ==
  IF k > Len(words) THEN <<>>
  ELSE IF k = Len(words) THEN words[k]
  ELSE words[k] \o <<" ">> \o text_from(words, k + 1)

(* the line is a .string directive on a text in double quotes *)
is_string_line(line) ==
  /\ line.words # <<>>
  /\ line.words[1] = t_string
  /\ Len(text_from(line.words, 2)) >= 2
  /\ text_from(line.words, 2)[1] = "\""
  /\ text_from(line.words, 2)[Len(text_from(line.words, 2))] = "\""

(* the characters between the quotes *)
string_characters(line) ==
  SubSeq(text_from(line.words, 2), 2, Len(text_from(line.words, 2)) - 1)

(* the data words Pass 2 wrote for line i, from the data counter it started at *)
data_words_written(i, count) ==
  [j \in 1..count |-> ReadWord(data_memory, DC_before(pass2_log, i) + j - 1)]

(* C14: for every data directive Pass 2 has done, Pass 1 and Pass 2 advance the
   data counter by the same amount and Pass 2 writes that many Absolute words
   from the data counter on: the k values of a .data directive in order, the
   n character ordinals of a .string directive and then one zero word. *)
C14_DataCounterMatchesWords ==
  \A i \in 1..Len(pass2_log) :
     /\ (am_file[i].words # <<>> /\ am_file[i].words[1] = t_data) =>
          LET k == Len(am_file[i].words) - 1
          IN /\ pass1_log[i].DC - DC_before(pass1_log, i) = k
             /\ pass2_log[i].DC - DC_before(pass2_log, i) = k
             /\ data_words_written(i, k) =
                  [j \in 1..k |->
                     [value |-> string_to_int(am_file[i].words[j + 1]) % ValueMod,
                      are |-> ARE_ABSOLUTE]]
     /\ is_string_line(am_file[i]) =>
          LET chars == string_characters(am_file[i])
              n == Len(chars)
          IN /\ pass1_log[i].DC - DC_before(pass1_log, i) = n + 1
             /\ pass2_log[i].DC - DC_before(pass2_log, i) = n + 1
             /\ data_words_written(i, n + 1) =
                  [j \in 1..(n + 1) |->
                     [value |-> IF j <= n THEN Ord(chars[j]) ELSE 0,
                      are |-> ARE_ABSOLUTE]]

is_entry_line(line) ==
  line.words # <<>> /\ line.words[1] = t_entry /\ Len(line.words) > 1

(* the step is the pass at position at handling the line it reads next, an
   .entry directive *)
entry_step(at) ==
  /\ pc = at
  /\ line_number' = line_number + 1
  /\ is_entry_line(am_file[line_number + 1])

(* the place in the table of the symbol find_symbol gives for name *)
first_named(table, name, k) ==
  /\ k \in 1..Len(table)
  /\ table[k].name = name
  /\ \A h \in 1..(k - 1) : table[h].name # name

(* C15: in Pass 2 a line ".entry NAME" leaves the counters alone; with NAME in
   the table it returns success and sets the entry flag of the symbol found,
   changing nothing else in the table; with NAME absent it returns
   UndefinedLabel, sets the error indicator and leaves the table alone, and no
   artifact is written for the unit.  In Pass 1 the line changes neither the
   counters nor the table. *)
C15_EntryDirective ==
  /\ [][ entry_step("second_pass_loop") =>
           LET name == am_file[line_number + 1].words[2]
           IN /\ IC' = IC /\ DC' = DC
              /\ Len(symbol_table') = Len(symbol_table)
              /\ IF find_symbol(symbol_table, name) # NULL
                 THEN /\ pass2_log'[line_number + 1].result = "SUCCESS"
                      /\ error_flag' = error_flag
                      /\ \A k \in 1..Len(symbol_table) :
                           symbol_table'[k] =
                             IF first_named(symbol_table, name, k)
                             THEN [symbol_table[k] EXCEPT !.is_entry = 1]
                             ELSE symbol_table[k]
                 ELSE /\ pass2_log'[line_number + 1].result = "ERROR_UNDEFINED_LABEL"
                      /\ error_flag' = 1
                      /\ symbol_table' = symbol_table ]_vars
  /\ [][ entry_step("first_pass_loop") =>
           (IC' = IC /\ DC' = DC /\ symbol_table' = symbol_table
            /\ pass1_log'[line_number + 1].result = "SUCCESS") ]_vars
  /\ [] ( (\E i \in 1..Len(pass2_log) :
              is_entry_line(am_file[i]) /\ pass2_log[i].result = "ERROR_UNDEFINED_LABEL")
            => (error_flag = 1 /\ no_artifact) )

(* C15: Pass 2 has done ".entry X" with the data symbols X and Y in the table:
   X has the flag, Y has not *)
C15_Witness ==
  /\ pc = "second_pass_loop"
  /\ Len(pass2_log) = MaxLines
  /\ am_file[3] = Line(NoLabel, <<t_entry, n_X>>)
  /\ find_symbol(symbol_table, n_X) # NULL
  /\ find_symbol(symbol_table, n_X).is_entry = 1
  /\ find_symbol(symbol_table, n_Y) # NULL
  /\ find_symbol(symbol_table, n_Y).is_entry = 0

(* the symbols of the table with the entry flag set, as places in the table *)
entry_places == { k \in 1..Len(symbol_table) : symbol_table[k].is_entry # 0 }

(* C16: when the artifacts are written, the entries file exists exactly when a
   symbol has the entry flag, and then holds one record (name, address) per
   such symbol, in the order of the table, and nothing else; the externals
   file exists exactly when the external-reference list is not empty, and then
   holds one record (name, address) per reference, in the order of the list. *)
C16_EntriesAndExternalsFiles ==
  ob_file # NoFile =>
    /\ (ent_file = NoFile) <=> (entry_places = {})
    /\ ent_file # NoFile =>
         /\ Len(ent_file.records) = Cardinality(entry_places)
         /\ \A k \in entry_places :
              ent_file.records[Cardinality({h \in entry_places : h <= k})] =
                [name |-> symbol_table[k].name, address |-> symbol_table[k].address]
    /\ (ext_file = NoFile) <=> (external_references = <<>>)
    /\ ext_file # NoFile =>
         /\ Len(ext_file.records) = Len(external_references)
         /\ \A r \in 1..Len(external_references) :
              ext_file.records[r] = [name |-> external_references[r].label,
                                     address |-> external_references[r].address]

(* C16: the three files written for a unit with an entry and an external
   reference *)
C16_Witness ==
  /\ pc = "done"
  /\ ob_file # NoFile
  /\ ent_file # NoFile
  /\ ext_file # NoFile
  /\ Len(ent_file.records) = 1
  /\ Len(ext_file.records) = 1

(* the addresses of a memory array that hold a word some unit has written *)
written_cells(memory) == DOMAIN memory

(* C17: when a unit of a batch begins its macro stage, the counters are at
   their initial values, the error indicator is clear, the symbol table, the
   macro table and the external-reference list are empty, and no cell of the
   instruction memory or of the data memory holds a word written by a unit
   before it. *)
C17_UnitStartsFromResetState ==
  pc = "process_macros" =>
    /\ IC = INITIAL_IC
    /\ DC = INITIAL_DC
    /\ error_flag = 0
    /\ symbol_table = <<>>
    /\ macro_table = <<>>
    /\ external_references = <<>>
    /\ written_cells(instruction_memory) = {}
    /\ written_cells(data_memory) = {}

(* unit k of the batch succeeded: process_single_file returned SUCCESS for it,
   no stage having failed, and its error indicator was clear *)
unit_succeeded(k) ==
  /\ batch_log[k].result = "SUCCESS"
  /\ batch_log[k].error_flag = 0

(* C18: in a batch of one or more units the units are processed in the order
   of the command line, each one whatever the units before it returned: when
   main returns, every unit has been processed, and the exit status is 0 when
   every unit succeeded and 1 when some unit did not. *)
C18_BatchExitStatus ==
  /\ \A k \in 1..Len(batch_log) : batch_log[k].arg = k
  /\ pc \notin {"main_return", "exit"} => Len(batch_log) = arg_i - 1
  /\ (pc = "exit" /\ argc >= 2) =>
       /\ Len(batch_log) = argc - 1
       /\ exit_status = IF \A k \in 1..Len(batch_log) : unit_succeeded(k)
                        THEN <<0>> ELSE <<1>>

(* C18: a batch of two units has returned: the first unit failed, the second
   was processed all the same and its object file written; the status is 1 *)
C18_Witness ==
  /\ pc = "exit"
  /\ argc = 3
  /\ Len(batch_log) = 2
  /\ ~unit_succeeded(1)
  /\ unit_succeeded(2)
  /\ batch_log[2].written
  /\ exit_status = <<1>>

(* the stage of process_single_file a value of pc belongs to *)
stage_of(at) ==
  IF at = "process_single_file" THEN 0
  ELSE IF at \in {"process_macros", "macro_loop"} THEN 1
  ELSE IF at = "first_pass_loop" THEN 2
  ELSE IF at \in {"second_pass", "second_pass_loop"} THEN 3
  ELSE IF at = "generate_output" THEN 4
  ELSE 5

(* every data symbol of the table stands at the final IC of Pass 1 plus the
   value DC had at its line *)
data_symbols_rebased ==
  \A i \in 1..Len(pass1_log) :
     (symbol_added(i) /\ symbol_of_line(i).is_data = 1) =>
        symbol_of_line(i).address = pass1_final_IC + DC_before(pass1_log, i)

(* C19: within one unit the stages follow one another in the order macro
   expansion, Pass 1, Pass 2, output: a step stays in its stage, moves to the
   next one, or ends the unit.  A step in which the macro stage or Pass 1
   returns a failure ends the unit, so that Pass 2 does not run.  Pass 2
   processes its first line with IC = INITIAL_IC and DC = INITIAL_DC, after
   Pass 1 has processed every line of the expanded file and rebased the data
   symbols. *)
C19_StagesInOrder ==
  /\ [][ \/ stage_of(pc') = stage_of(pc)
         \/ stage_of(pc') = stage_of(pc) + 1
         \/ pc' = "done" ]_vars
  /\ [][ (stage_of(pc) \in {1, 2} /\ result' # "SUCCESS") => pc' = "done" ]_vars
  /\ [][ (pc = "second_pass_loop" /\ line_number = 0 /\ line_number' = 1) =>
           /\ IC = INITIAL_IC
           /\ DC = INITIAL_DC
           /\ Len(pass1_log) = Len(am_file)
           /\ data_symbols_rebased ]_vars
  /\ [](pass2_log # <<>> => Len(pass1_log) = Len(am_file))

(* C19: Pass 2 has processed its first line, in a unit whose Pass 1 left IC
   above INITIAL_IC and DC above INITIAL_DC, with a rebased data symbol in the
   table *)
C19_Witness ==
  /\ pc = "second_pass_loop"
  /\ Len(pass2_log) = 1
  /\ pass1_final_IC > INITIAL_IC
  /\ pass1_log[Len(pass1_log)].DC > INITIAL_DC
  /\ \E i \in 1..Len(pass1_log) :
        /\ symbol_added(i)
        /\ symbol_of_line(i).is_data = 1
        /\ symbol_of_line(i).address > INITIAL_IC

(* some line of the pass whose history is log returned an error *)
line_error_in(log) == \E i \in 1..Len(log) : log[i].result # "SUCCESS"

(* C20: neither pass stops at the error of a line: when first_pass leaves its
   loop it has processed every line of the expanded file, and so has
   second_pass when it leaves its own; second_pass returns SUCCESS exactly
   when no line of Pass 2 returned an error, which is exactly when the error
   indicator is still clear. *)
C20_PassesScanEveryLine ==
  /\ [][ (pc = "first_pass_loop" /\ pc' # "first_pass_loop") =>
           Len(pass1_log) = Len(am_file) ]_vars
  /\ [][ (pc = "second_pass_loop" /\ pc' # "second_pass_loop") =>
           /\ Len(pass2_log) = Len(am_file)
           /\ (result' = "SUCCESS") <=> ~line_error_in(pass2_log)
           /\ (result' = "SUCCESS") <=> (error_flag = 0) ]_vars
  /\ [](pc \in {"first_pass_loop", "second_pass", "second_pass_loop"} =>
          (error_flag = 0 \/ line_error_in(pass2_log)))

(* C20: second_pass has returned a failure for a unit of three lines: a line
   before the last returned an error in Pass 1, one in Pass 2, and both passes
   went on to the last line, which returned SUCCESS *)
C20_Witness ==
  /\ pc = "done"
  /\ result = "ERROR_INVALID_SYNTAX"
  /\ Len(am_file) = 3
  /\ Len(pass1_log) = 3
  /\ Len(pass2_log) = 3
  /\ \E i \in 1..2 : pass1_log[i].result # "SUCCESS"
  /\ \E i \in 1..2 : pass2_log[i].result # "SUCCESS"
  /\ pass1_log[3].result = "SUCCESS"
  /\ pass2_log[3].result = "SUCCESS"

(* line i of Pass 1 is an instruction line with a known mnemonic and as many
   operands as the catalog counts, whose label, if any, is not in the table *)
sized_instruction_line(i) ==
  /\ is_instruction_line(am_file[i])
  /\ Len(am_file[i].words) - 1 = get_instruction_info(am_file[i].words[1]).operand_count
  /\ am_file[i].label # NoLabel => ~in_table_before(i, am_file[i].label)

(* the first token of the line is neither a mnemonic nor a directive *)
unknown_mnemonic_line(line) ==
  /\ ~is_empty_line(line)
  /\ ~is_comment_line(line)
  /\ line.words # <<>>
  /\ ~is_instruction(line.words[1])
  /\ ~is_directive(line.words[1])

(* C21: in Pass 1 an instruction line with a known mnemonic and the operand
   count of the catalog returns InvalidOperand exactly when the type of some
   operand is outside the mask of its slot (the source mask for the first of
   two operands, the destination mask for the second of two and for the sole
   operand of one); otherwise the line is accepted and IC advances.  A line
   with an unknown mnemonic returns InvalidInstruction. *)
C21_OperandMaskDecides ==
  \A i \in 1..Len(pass1_log) :
     /\ sized_instruction_line(i) =>
          IF legal_combination(am_file[i])
          THEN /\ pass1_log[i].result = "SUCCESS"
               /\ words_of_line(pass1_log, i) >= 1
          ELSE /\ pass1_log[i].result = "ERROR_INVALID_OPERAND"
               /\ words_of_line(pass1_log, i) = 0
     /\ unknown_mnemonic_line(am_file[i]) =>
          pass1_log[i].result = "ERROR_INVALID_INSTRUCTION"

(* C22: in Pass 1 the label of an instruction line is refused with
   DuplicateLabel only when a binding of its name that is not external is
   already in the table: with no such binding, also when the name has been
   declared external, the line does not return DuplicateLabel and the label is
   bound to the IC at the start of the line. *)
C22_ExternalNameCanBeBound ==
  \A i \in 1..Len(pass1_log) :
     ( /\ is_instruction_line(am_file[i])
       /\ am_file[i].label # NoLabel
       /\ ~bound_before(i, am_file[i].label) )
       => /\ pass1_log[i].result # "ERROR_DUPLICATE_LABEL"
          /\ symbol_added(i)
          /\ symbol_of_line(i).name = am_file[i].label
          /\ symbol_of_line(i).is_external = 0
          /\ symbol_of_line(i).address = IC_before(pass1_log, i)

(* the uses, on the lines Pass 2 has done, of symbols that are not external as
   Direct operands: the line and the place of the operand in it *)
internal_uses ==
  { u \in (1..Len(pass2_log)) \X (2..3) :
      /\ u[2] \in operand_positions(am_file[u[1]])
      /\ Len(am_file[u[1]].words) >= u[2]
      /\ get_operand_type(am_file[u[1]].words[u[2]]) = DIRECT
      /\ find_symbol(symbol_table, am_file[u[1]].words[u[2]]) # NULL
      /\ find_symbol(symbol_table, am_file[u[1]].words[u[2]]).is_external = 0 }

(* the address of the word of the operand at place p of line i: the word after
   the leading word for the first operand, the last word of the line for the
   last one *)
operand_word_address(i, p) ==
  IF p = 2 THEN IC_before(pass2_log, i) + 1 ELSE pass2_log[i].IC - 1

(* every operand of the line is an immediate, a register or a Direct operand
   naming a symbol of the table *)
one_word_operands(line) ==
  \A p \in operand_positions(line) :
     /\ Len(line.words) >= p
     /\ \/ get_operand_type(line.words[p]) \in {IMMEDIATE, REGISTER}
        \/ /\ get_operand_type(line.words[p]) = DIRECT
           /\ find_symbol(symbol_table, line.words[p]) # NULL

(* C23: a Direct operand naming a symbol that is not external makes Pass 2
   emit one word, tagged Relocatable, whose payload is the address the symbol
   has in the table (rebased when it is a data symbol), and no external
   reference is recorded at the address of that word; on a line whose other
   operands take one word each, the line takes one word per operand after its
   leading word. *)
C23_InternalDirectIsRelocatable ==
  \A u \in internal_uses :
     /\ ReadWord(instruction_memory, operand_word_address(u[1], u[2]) - INITIAL_IC) =
          [value |-> find_symbol(symbol_table, am_file[u[1]].words[u[2]]).address,
           are |-> ARE_RELOCATABLE]
     /\ \A r \in 1..Len(external_references) :
          external_references[r].address # operand_word_address(u[1], u[2])
     /\ one_word_operands(am_file[u[1]]) =>
          words_of_line(pass2_log, u[1]) = Len(am_file[u[1]].words)

(* C23: Pass 2 has encoded "mov X, r1" where X is a data symbol declared at
   DC = 0 and rebased above INITIAL_IC *)
C23_Witness ==
  /\ Len(pass2_log) = 2
  /\ am_file[1] = Line(n_X, <<t_data, <<"7">>, <<"-", "1">> >>)
  /\ am_file[2] = Line(NoLabel, <<t_mov, n_X, o_r1>>)
  /\ <<2, 2>> \in internal_uses
  /\ find_symbol(symbol_table, n_X).is_data = 1
  /\ find_symbol(symbol_table, n_X).address > INITIAL_IC
  /\ ReadWord(instruction_memory, 1).are = ARE_RELOCATABLE

(* the words the specification gives an operand that is not one of a register
   pair: two for an Indirect operand, one for any other *)
operand_words(operand) == IF get_operand_type(operand) = INDIRECT THEN 2 ELSE 1

(* the words the specification gives a line with an Indirect operand: the
   leading word and the words of each operand *)
indirect_line_words(line) ==
  IF Len(line.words) = 2 THEN 1 + operand_words(line.words[2])
  ELSE 1 + operand_words(line.words[2]) + operand_words(line.words[3])

(* line i is a legal instruction line of which an operand is Indirect and no
   operand is Direct *)
indirect_line(i) ==
  /\ sized_instruction_line(i)
  /\ legal_combination(am_file[i])
  /\ \E p \in operand_positions(am_file[i]) :
        get_operand_type(am_file[i].words[p]) = INDIRECT
  /\ \A p \in operand_positions(am_file[i]) :
        get_operand_type(am_file[i].words[p]) # DIRECT

(* C24: an Indirect operand takes two words in both passes: on a legal line
   with an Indirect operand Pass 1 advances IC by the leading word, two words
   per Indirect operand and one per other operand, Pass 2 emits as many, and
   the two words of an Indirect first operand are a base-address word tagged
   Relocatable or External followed by an index word tagged Absolute. *)
C24_IndirectTakesTwoWords ==
  \A i \in 1..Len(pass2_log) :
     indirect_line(i) =>
       /\ words_of_line(pass1_log, i) = indirect_line_words(am_file[i])
       /\ words_of_line(pass2_log, i) = indirect_line_words(am_file[i])
       /\ get_operand_type(am_file[i].words[2]) = INDIRECT =>
            /\ ReadWord(instruction_memory, IC_before(pass2_log, i) + 1 - INITIAL_IC).are
                 \in {ARE_RELOCATABLE, ARE_EXTERNAL}
            /\ ReadWord(instruction_memory, IC_before(pass2_log, i) + 2 - INITIAL_IC).are
                 = ARE_ABSOLUTE

(* the step reads a line while the expander is collecting a definition *)
collecting_step ==
  /\ pc = "macro_loop"
  /\ in_macro # 0
  /\ Len(macro_content) < MAX_MACRO_LINES
  /\ Len(as_file') = Len(as_file) + 1

(* the line the step has read *)
line_read == as_file'[Len(as_file')]

(* C25: while the expander collects a definition, every line read other than
   the terminator, blank lines, comment lines and definition-start lines
   included, is appended to the buffer and nothing is written to the output;
   the terminator registers the buffered lines under the recorded name when
   the buffer is not empty, registers nothing when it is empty, writes nothing
   and returns the expander to Normal. *)
C25_CollectingBuffersEveryLine ==
  [][ collecting_step =>
        IF is_macro_end(line_read)
        THEN /\ am_file' = am_file
             /\ in_macro' = 0
             /\ macro_table' =
                  IF macro_content # <<>>
                  THEN << [name |-> macro_name, content |-> macro_content,
                           line_count |-> Len(macro_content)] >> \o macro_table
                  ELSE macro_table
        ELSE /\ macro_content' = Append(macro_content, line_read)
             /\ am_file' = am_file
             /\ macro_table' = macro_table
             /\ in_macro' # 0 ]_vars

(* the macro stage has returned success with the expander still collecting *)
ended_in_definition ==
  /\ in_macro # 0
  /\ pc = "first_pass_loop" \/ first_pass_returned

(* C26: when the input ends while the expander is collecting a definition,
   the macro stage returns success and goes on to Pass 1, the step registers
   no macro and writes nothing, the output holds no line read since the
   definition began, and Pass 1 processes that output. *)
C26_OpenDefinitionIsDropped ==
  /\ [][ (pc = "macro_loop" /\ pc' # "macro_loop" /\ in_macro # 0
            /\ Len(macro_content) < MAX_MACRO_LINES) =>
           /\ result' = "SUCCESS"
           /\ pc' = "first_pass_loop"
           /\ macro_table' = macro_table
           /\ am_file' = am_file ]_vars
  /\ [](ended_in_definition => Len(am_file) = definition_output)
  /\ [](ended_in_definition /\ first_pass_returned => Len(pass1_log) = Len(am_file))

(* C27: a macro invocation that carries a label keeps it: when a line with a
   label is read in Normal state and its first token names the macro found
   for it, the output gets the label followed by the first body line, then the
   other body lines unlabelled. *)
C27_InvocationKeepsLabel ==
  [][ \A k \in 1..Len(macro_table) :
        ( /\ reads_name_of(k)
          /\ line_read.label # NoLabel
          /\ Len(macro_table[k].name[1]) < MAX_LABEL_LENGTH
          /\ \A j \in 1..(k - 1) : macro_table[j].name # macro_table[k].name
          /\ macro_table[k].content[1].label = NoLabel )
          => am_file' = am_file
                        \o << Line(line_read.label, macro_table[k].content[1].words) >>
                        \o Tail(macro_table[k].content) ]_vars

(* C28: for a unit whose object file is written, the address the symbol table
   has for a label is the address of the word it labels in the file: for a
   label of an instruction line, the address at which Pass 2 wrote the leading
   word of the line; for a label of a .data or .string line, the final IC of
   Pass 2 plus the offset Pass 2 gave the first data word of the line. *)
C28_LabelIsArtifactAddress ==
  ob_file # NoFile =>
    \A i \in 1..Len(pass1_log) :
       (symbol_added(i) /\ am_file[i].label # NoLabel /\ am_file[i].words # <<>>) =>
          IF is_instruction(am_file[i].words[1])
          THEN symbol_of_line(i).address = IC_before(pass2_log, i)
          ELSE am_file[i].words[1] \in {t_data, t_string} =>
                 symbol_of_line(i).address = pass2_final_IC + DC_before(pass2_log, i)

(* C29: in and after Pass 1 the symbol table never holds an external symbol
   and a symbol that is not external under one name, so that the lookup of a
   name bound by a label never gives an external symbol. *)
C29_NoNameBothExternalAndLocal ==
  /\ \A a, b \in 1..Len(symbol_table) :
        symbol_table[a].name = symbol_table[b].name =>
          symbol_table[a].is_external = symbol_table[b].is_external
  /\ \A a \in 1..Len(symbol_table) :
        symbol_table[a].is_external = 0 =>
          find_symbol(symbol_table, symbol_table[a].name).is_external = 0

(* C30: every store Pass 2 makes to instruction_memory and to data_memory is
   at an index of 0 .. MEMORY_SIZE - 1, whatever the unit: no word is stored
   outside the arrays. *)
C30_StoresStayInsideArrays ==
  /\ \A a \in DOMAIN instruction_memory : 0 <= a /\ a < MEMORY_SIZE
  /\ \A a \in DOMAIN data_memory : 0 <= a /\ a < MEMORY_SIZE
====
